---- MODULE Spec2Model ----
(***************************************************************************)
(* State-machine model of the thoughts/folders REST server (src/index.js)  *)
(* running against the relational schema of src/db-setup.sql.              *)
(*                                                                         *)
(* Every request is a little process: it is received, passes the           *)
(* authenticateUser middleware and then runs its route handler.  A handler *)
(* is cut at its `await pool.query(...)` points: each SQL statement is one *)
(* atomic step on the store, taken together with the handler code that     *)
(* follows it up to the next await.  Requests in flight interleave freely. *)
(***************************************************************************)
EXTENDS Integers, Sequences, FiniteSets, Bags, TLC

\* ---------------------------------------------------------------- bounds
MaxRequests == 4        \* requests received in one run
MaxInFlight == 2        \* requests handled concurrently
MaxId       == 2        \* largest row id a request body names

\* ------------------------------------------------------------ null values
Null    == -1           \* an absent JSON number / SQL NULL in an INTEGER column
NullStr == "<null>"     \* an absent JSON string / SQL NULL in a text column
NoEmail == << >>        \* a decoded token without an email
NoUser  == [uid |-> "", email |-> NoEmail]   \* req.user before the gate sets it

\* JavaScript falsiness of a numeric body field: `!id`, `folder || null`.
FalsyNum(v) == v \in {Null, 0}

\* JavaScript falsiness of a string body field: `!name`.
FalsyStr(v) == v \in {NullStr, ""}

\* ------------------------------------------------------- identity provider
\* An Authorization header is the list of its space-separated words.
NoHeader == << >>
Headers ==
    { NoHeader, <<"Basic", "tokA">>, <<"Bearer", "bad">>,
      <<"Bearer", "tokA">>, <<"Bearer", "tokB">> }

\* admin.auth().verifyIdToken: the decoded token, or NoUser when it throws.
VerifyIdToken(idToken) ==
    CASE idToken = "tokA" -> [uid |-> "u1", email |-> <<"a", "l", "@", "x">>]
      [] idToken = "tokB" -> [uid |-> "u2", email |-> NoEmail]
      [] OTHER            -> NoUser

Uids == {"u1", "u2"}

\* authHeader && authHeader.startsWith('Bearer ')
HasBearerPrefix(authHeader) ==
    /\ authHeader # NoHeader
    /\ Len(authHeader) >= 2
    /\ authHeader[1] = "Bearer"

\* authHeader.split('Bearer ')[1]
BearerToken(authHeader) == authHeader[2]

\* ------------------------------------------------------------ user naming
Anonymous == <<"a", "n", "o", "n", "y", "m", "o", "u", "s">>

RECURSIVE BeforeAt(_)
\* userEmail.split('@')[0]
BeforeAt(s) ==
    IF s = << >> \/ Head(s) = "@" THEN << >>
    ELSE <<Head(s)>> \o BeforeAt(Tail(s))

\* userEmail ? userEmail.split('@')[0] : 'anonymous'
UserName(userEmail) ==
    IF userEmail = NoEmail THEN Anonymous ELSE BeforeAt(userEmail)

\* ------------------------------------------------------------------ state
VARIABLES
    users,       \* table users, in insertion order: rows [id, username, email]
    folders,     \* table folders: rows [id, user_id, name]
    thoughts,    \* table thoughts: rows [id, user_id, text, section, folder]
    folderSeq,   \* folders_id_seq: the next SERIAL value
    thoughtSeq,  \* thoughts_id_seq: the next SERIAL value
    reqs,        \* the bag of requests in flight
    received,    \* how many requests have been received
    last,        \* what the step just taken answered, and to which request
    creators     \* history: identities that have inserted a thought row

vars == <<users, folders, thoughts, folderSeq, thoughtSeq, reqs, received, last, creators>>
db == <<users, folders, thoughts, folderSeq, thoughtSeq>>

Routes ==
    { "GET thoughts", "POST thoughts", "PUT thoughts", "DELETE thoughts",
      "GET folders", "POST folders", "PUT folders", "DELETE folders" }

\* Values a request body may carry.
IdInputs      == {Null} \cup (1 .. MaxId)
TextInputs    == {NullStr, "a"}
SectionInputs == {NullStr, "todo", "idea"}
NameInputs    == {NullStr, "work", "home"}

\* A route registered without the middleware.
GateForgotten == Routes \ {"DELETE folders"}

\* The routes registered with authenticateUser in front of the handler.
GatedRoutes == Routes

\* A request in flight.  id is the local of DELETE /api/folders that lives across
\* its first await, the folder id; changed is history, whether its detach
\* statement touched a row (the handler discards that statement's result).
NewRequest(route, authHeader) ==
    [route |-> route, header |-> authHeader, user |-> NoUser,
     pc |-> IF route \in GatedRoutes THEN "gate" ELSE "handler",
     id |-> Null, changed |-> FALSE]

\* The step just taken answered no request.
NoStep == [req |-> NewRequest("", NoHeader), status |-> 0, rows |-> {}]

Init ==
    /\ users = << >>
    /\ folders = {}
    /\ thoughts = {}
    /\ folderSeq = 1
    /\ thoughtSeq = 1
    /\ reqs = EmptyBag
    /\ received = 0
    /\ last = NoStep
    /\ creators = {}

InFlight == BagToSet(reqs)

\* The request r awaits its next statement as r2; nothing is answered yet.
Continue(r, r2) ==
    /\ reqs' = (reqs (-) SetToBag({r})) (+) SetToBag({r2})
    /\ last' = NoStep

\* res.status(status).json(...): the request r is answered and leaves.
Respond(r, status, rows) ==
    /\ reqs' = reqs (-) SetToBag({r})
    /\ last' = [req |-> r, status |-> status, rows |-> rows]

\* -------------------------------------------------------------- the store
\* SELECT * FROM <table> WHERE user_id = $1
OwnedBy(rows, userId) == {row \in rows : row.user_id = userId}

\* SELECT * FROM users WHERE id = $1
SelectUser(userId) == SelectSeq(users, LAMBDA row : row.id = userId)

\* A users table without its primary key.
NoPrimaryKey(userId) == TRUE

\* users.id PRIMARY KEY
UsersPrimaryKeyOk(userId) == \A i \in 1 .. Len(users) : users[i].id # userId

\* A user_id column without its foreign key.
NoUserForeignKey(userId) == TRUE

\* REFERENCES users(id)
UserExists(userId) == \E i \in 1 .. Len(users) : users[i].id = userId

\* thoughts.folder REFERENCES folders(id): NULL, or the id of a folder row
FolderRefOk(folder) == folder = Null \/ \E f \in folders : f.id = folder

\* thoughts.text NOT NULL, thoughts.section NOT NULL
ThoughtNotNullOk(text, section) == text # NullStr /\ section # NullStr

\* A folders table without UNIQUE(user_id, name).
NoUniqueName(id, userId, name) == TRUE

\* folders UNIQUE(user_id, name), checked for the row with id `id`
FolderUniqueOk(id, userId, name) ==
    \A f \in folders : f.id # id => ~(f.user_id = userId /\ f.name = name)

\* SET column = $n, without COALESCE.
Overwrite(value, column, null) == value

\* COALESCE($n, column)
Coalesce(value, column, null) == IF value # null THEN value ELSE column

\* SET text = COALESCE($1, text), section = COALESCE($2, section),
\*     folder = COALESCE($3, folder)
CoalescedThought(t, text, section, folder) ==
    [t EXCEPT !.text = Coalesce(text, t.text, NullStr),
              !.section = Coalesce(section, t.section, NullStr),
              !.folder = Coalesce(folder, t.folder, Null)]

\* UPDATE thoughts SET folder = NULL WHERE folder = $1 AND user_id = $2
Detached(id, userId) ==
    {IF t.folder = id /\ t.user_id = userId THEN [t EXCEPT !.folder = Null] ELSE t
       : t \in thoughts}

\* A folder column whose foreign key takes no action on delete.
OnDeleteNoAction(ths, deletedIds) == ths

\* thoughts.folder ... ON DELETE SET NULL, for the deleted folder ids
OnDeleteSetNull(ths, deletedIds) ==
    {IF t.folder \in deletedIds THEN [t EXCEPT !.folder = Null] ELSE t : t \in ths}

\* folder || null
FolderOrNull(folder) == IF FalsyNum(folder) THEN Null ELSE folder

\* ---------------------------------------------------------------- express
\* A request arrives on one of the eight routes.  Express runs the route's chain
\* at once up to its first await: a gated route answers 401 to a header that is
\* absent or lacks the Bearer prefix before anything is awaited, and otherwise
\* awaits the verifier.
Receive(route, authHeader) ==
    /\ received < MaxRequests
    /\ BagCardinality(reqs) < MaxInFlight
    /\ received' = received + 1
    /\ LET r == NewRequest(route, authHeader) IN
         IF r.pc = "gate" /\ ~HasBearerPrefix(authHeader)
         THEN Respond(r, 401, {})
         ELSE /\ reqs' = reqs (+) SetToBag({r})
              /\ last' = NoStep
    /\ UNCHANGED <<db, creators>>

\* At(r, route, pc): the request r is on `route` and about to run the step `pc`.
At(r, route, pc) == r.route = route /\ r.pc = pc

\* The authentication middleware after its await: verifyIdToken has settled.
authenticateUser(r) ==
    /\ r.pc = "gate"
    /\ LET idToken == BearerToken(r.header)
           decodedToken == VerifyIdToken(idToken)
       IN
         IF decodedToken = NoUser
         THEN Respond(r, 401, {})
         ELSE Continue(r, [r EXCEPT !.user = decodedToken, !.pc = "handler"])
    /\ UNCHANGED <<db, received, creators>>

\* ------------------------------------------------------- thoughts handlers
\* GET /api/thoughts
GetThoughts(r) ==
    /\ At(r, "GET thoughts", "handler")
    /\ Respond(r, 200, OwnedBy(thoughts, r.user.uid))
    /\ UNCHANGED <<db, received, creators>>

\* POST /api/thoughts, first statement: does the user exist?
PostThoughtsUserCheck(r) ==
    /\ At(r, "POST thoughts", "handler")
    /\ LET userCheck == SelectUser(r.user.uid) IN
         IF Len(userCheck) = 0
         THEN Continue(r, [r EXCEPT !.pc = "insertUser"])
         ELSE Continue(r, [r EXCEPT !.pc = "insertThought"])
    /\ UNCHANGED <<db, received, creators>>

\* POST /api/thoughts, second statement: INSERT INTO users
PostThoughtsInsertUser(r) ==
    /\ At(r, "POST thoughts", "insertUser")
    /\ LET userId == r.user.uid
           userEmail == r.user.email
           row == [id |-> userId, username |-> UserName(userEmail), email |-> userEmail]
       IN IF UsersPrimaryKeyOk(userId)
          THEN /\ users' = Append(users, row)
               /\ Continue(r, [r EXCEPT !.pc = "insertThought"])
          ELSE /\ users' = users
               /\ Respond(r, 500, {})
    /\ UNCHANGED <<folders, thoughts, folderSeq, thoughtSeq, received, creators>>

\* POST /api/thoughts, last statement: INSERT INTO thoughts ... RETURNING *
PostThoughtsInsertThought(r, text, section, folder) ==
    /\ At(r, "POST thoughts", "insertThought")
    /\ LET userId == r.user.uid
           row == [id |-> thoughtSeq, user_id |-> userId, text |-> text,
                   section |-> section, folder |-> FolderOrNull(folder)]
       IN /\ thoughtSeq' = thoughtSeq + 1
          /\ IF /\ ThoughtNotNullOk(text, section)
                /\ UserExists(userId)
                /\ FolderRefOk(row.folder)
             THEN /\ thoughts' = thoughts \cup {row}
                  /\ creators' = creators \cup {userId}
                  /\ Respond(r, 201, {row})
             ELSE /\ UNCHANGED <<thoughts, creators>>
                  /\ Respond(r, 500, {})
    /\ UNCHANGED <<users, folders, folderSeq, received>>

\* PUT /api/thoughts
PutThoughts(r, id, text, section, folder) ==
    /\ At(r, "PUT thoughts", "handler")
    /\ LET userId == r.user.uid
           matched == {t \in thoughts : t.id = id /\ t.user_id = userId}
           updated == {CoalescedThought(t, text, section, folder) : t \in matched}
       IN  IF FalsyNum(id)
           THEN /\ Respond(r, 400, {})
                /\ UNCHANGED thoughts
           ELSE IF \E t \in matched :
                     LET u == CoalescedThought(t, text, section, folder)
                     IN  u.folder # t.folder /\ ~FolderRefOk(u.folder)
           THEN /\ Respond(r, 500, {})
                /\ UNCHANGED thoughts
           ELSE /\ thoughts' = (thoughts \ matched) \cup updated
                /\ IF updated = {}
                   THEN Respond(r, 404, {})
                   ELSE Respond(r, 200, updated)
    /\ UNCHANGED <<users, folders, folderSeq, thoughtSeq, received, creators>>

\* DELETE /api/thoughts
DeleteThoughts(r, id) ==
    /\ At(r, "DELETE thoughts", "handler")
    /\ LET userId == r.user.uid
           deleted == {t \in thoughts : t.id = id /\ t.user_id = userId}
       IN  IF FalsyNum(id)
           THEN /\ Respond(r, 400, {})
                /\ UNCHANGED thoughts
           ELSE /\ thoughts' = thoughts \ deleted
                /\ IF deleted = {}
                   THEN Respond(r, 404, {})
                   ELSE Respond(r, 200, deleted)
    /\ UNCHANGED <<users, folders, folderSeq, thoughtSeq, received, creators>>

\* -------------------------------------------------------- folders handlers
\* GET /api/folders
GetFolders(r) ==
    /\ At(r, "GET folders", "handler")
    /\ Respond(r, 200, OwnedBy(folders, r.user.uid))
    /\ UNCHANGED <<db, received, creators>>

\* POST /api/folders
PostFolders(r, name) ==
    /\ At(r, "POST folders", "handler")
    /\ LET userId == r.user.uid
           row == [id |-> folderSeq, user_id |-> userId, name |-> name]
       IN  IF FalsyStr(name)
           THEN /\ Respond(r, 400, {})
                /\ UNCHANGED <<folders, folderSeq>>
           ELSE /\ folderSeq' = folderSeq + 1
                /\ IF UserExists(userId) /\ FolderUniqueOk(row.id, userId, name)
                   THEN /\ folders' = folders \cup {row}
                        /\ Respond(r, 201, {row})
                   ELSE /\ folders' = folders
                        /\ Respond(r, 500, {})
    /\ UNCHANGED <<users, thoughts, thoughtSeq, received, creators>>

\* PUT /api/folders
PutFolders(r, id, name) ==
    /\ At(r, "PUT folders", "handler")
    /\ LET userId == r.user.uid
           matched == {f \in folders : f.id = id /\ f.user_id = userId}
           updated == {[f EXCEPT !.name = name] : f \in matched}
       IN  IF FalsyNum(id) \/ FalsyStr(name)
           THEN /\ Respond(r, 400, {})
                /\ UNCHANGED folders
           ELSE IF \E f \in matched : ~FolderUniqueOk(f.id, userId, name)
           THEN /\ Respond(r, 500, {})
                /\ UNCHANGED folders
           ELSE /\ folders' = (folders \ matched) \cup updated
                /\ IF updated = {}
                   THEN Respond(r, 404, {})
                   ELSE Respond(r, 200, updated)
    /\ UNCHANGED <<users, thoughts, folderSeq, thoughtSeq, received, creators>>

\* DELETE /api/folders, first statement: detach the caller's thoughts
DeleteFoldersDetach(r, id) ==
    /\ At(r, "DELETE folders", "handler")
    /\ LET userId == r.user.uid IN
         IF FalsyNum(id)
         THEN /\ Respond(r, 400, {})
              /\ UNCHANGED thoughts
         ELSE /\ thoughts' = Detached(id, userId)
              /\ Continue(r, [r EXCEPT !.pc = "deleteFolder", !.id = id,
                                       !.changed = (Detached(id, userId) # thoughts)])
    /\ UNCHANGED <<users, folders, folderSeq, thoughtSeq, received, creators>>

\* DELETE /api/folders, second statement: delete the folder row
DeleteFoldersDelete(r) ==
    /\ At(r, "DELETE folders", "deleteFolder")
    /\ LET userId == r.user.uid
           deleted == {f \in folders : f.id = r.id /\ f.user_id = userId}
       IN /\ folders' = folders \ deleted
          /\ thoughts' = OnDeleteSetNull(thoughts, {f.id : f \in deleted})
          /\ IF deleted = {}
             THEN Respond(r, 404, {})
             ELSE Respond(r, 200, deleted)
    /\ UNCHANGED <<users, folderSeq, thoughtSeq, received, creators>>

\* ------------------------------------------------------------ the machine
\* The requests in flight that are on `route` and about to run the step `pc`.
Ready(route, pc) == {r \in InFlight : At(r, route, pc)}

\* One action per step of the server, over every request that can take it and
\* every body the request may carry.
Arrive == \E route \in Routes, authHeader \in Headers : Receive(route, authHeader)

Gate == \E r \in InFlight : authenticateUser(r)

ListThoughts == \E r \in InFlight : GetThoughts(r)

CreateThoughtCheckUser == \E r \in InFlight : PostThoughtsUserCheck(r)

CreateThoughtInsertUser == \E r \in InFlight : PostThoughtsInsertUser(r)

CreateThoughtInsert ==
    \E r \in Ready("POST thoughts", "insertThought") :
      \E text \in TextInputs, section \in SectionInputs, folder \in IdInputs :
        PostThoughtsInsertThought(r, text, section, folder)

UpdateThought ==
    \E r \in Ready("PUT thoughts", "handler") :
      \E id \in IdInputs, text \in TextInputs, section \in SectionInputs, folder \in IdInputs :
        PutThoughts(r, id, text, section, folder)

DeleteThought == \E r \in InFlight, id \in IdInputs : DeleteThoughts(r, id)

ListFolders == \E r \in InFlight : GetFolders(r)

CreateFolder == \E r \in InFlight, name \in NameInputs : PostFolders(r, name)

RenameFolder ==
    \E r \in Ready("PUT folders", "handler") :
      \E id \in IdInputs, name \in NameInputs : PutFolders(r, id, name)

DeleteFolderDetach == \E r \in InFlight, id \in IdInputs : DeleteFoldersDetach(r, id)

DeleteFolderRow == \E r \in InFlight : DeleteFoldersDelete(r)

Next ==
    \/ Arrive
    \/ Gate
    \/ ListThoughts
    \/ CreateThoughtCheckUser
    \/ CreateThoughtInsertUser
    \/ CreateThoughtInsert
    \/ UpdateThought
    \/ DeleteThought
    \/ ListFolders
    \/ CreateFolder
    \/ RenameFolder
    \/ DeleteFolderDetach
    \/ DeleteFolderRow

Spec == Init /\ [][Next]_vars

\* ================================================================= claims
\* The request r took the step: one copy of it left the bag.
Acted(r) == r \in InFlight /\ CopiesIn(r, reqs') < CopiesIn(r, reqs)

\* The step answered a request (last' describes the step just taken).
Answered == last'.status # 0 /\ vars' # vars

\* The credentials the identity provider accepts, as Authorization headers.
ValidCredential(authHeader) == authHeader \in {<<"Bearer", "tokA">>, <<"Bearer", "tokB">>}

HasUserRow(userId) == Cardinality({i \in 1 .. Len(users) : users[i].id = userId}) >= 1

\* ---- C1
\* No request runs a handler without a valid credential, and such a request is
\* answered 401 only.
GateInv ==
    /\ \A r \in InFlight : r.pc # "gate" => ValidCredential(r.header) /\ r.user.uid \in Uids
    /\ (last.status # 0 /\ ~ValidCredential(last.req.header)) => last.status = 401

\* C1: on every route a request whose Authorization header is absent, lacks the
\* Bearer prefix or carries a rejected token is answered 401 and nothing else,
\* never reaches its handler, and none of its steps changes the store.
C1_UnauthorizedNoMutation ==
    [][ /\ GateInv'
        /\ (Answered /\ ~ValidCredential(last'.req.header)) => db' = db
        /\ \A r \in InFlight : (Acted(r) /\ ~ValidCredential(r.header)) => db' = db
      ]_vars

\* A rejected token on DELETE /api/folders is answered 401 while the store holds rows.
C1_Witness ==
    /\ last.status = 401
    /\ last.req.route = "DELETE folders"
    /\ last.req.header = <<"Bearer", "bad">>
    /\ thoughts # {}

\* ---- C2
\* C2: no step taken by a request changes a thought or folder row owned by an
\* identity other than the one it is authenticated as (the store's ON DELETE
\* rule included); a list answers the caller's rows only; and an update or
\* delete that names another owner's row is answered 404.
C2_NoCrossOwnerEffect ==
    [][ /\ \A r \in InFlight : Acted(r) =>
             \A a \in Uids \ {r.user.uid} :
               /\ OwnedBy(thoughts', a) = OwnedBy(thoughts, a)
               /\ OwnedBy(folders', a) = OwnedBy(folders, a)
        /\ (Answered /\ last'.status = 200) =>
             \A row \in last'.rows : row.user_id = last'.req.user.uid
      ]_vars

\* ---- C3
UserRowsOf(userId) == {i \in 1 .. Len(users) : users[i].id = userId}

\* The display name the spec gives each identity of the identity provider.
DisplayName(userId) == IF userId = "u1" THEN <<"a", "l">> ELSE Anonymous

\* C3: an identity never has more than one user row; a thought-create that is
\* past its provisioning step, or was answered 201, finds exactly one; and the
\* row's display name is the email's local part, or anonymous without an email.
C3_OneUserPerIdentity ==
    /\ \A u \in Uids : Cardinality(UserRowsOf(u)) <= 1
    /\ \A i \in 1 .. Len(users) : users[i].username = DisplayName(users[i].id)
    /\ \A r \in InFlight : r.pc = "insertThought" => Cardinality(UserRowsOf(r.user.uid)) = 1
    /\ (last.req.route = "POST thoughts" /\ last.status = 201)
         => Cardinality(UserRowsOf(last.req.user.uid)) = 1

\* The second thought of u1 has just been created, and u1 has its one user row.
C3_Witness ==
    /\ last.req.route = "POST thoughts" /\ last.status = 201
    /\ last.req.user.uid = "u1"
    /\ Cardinality(OwnedBy(thoughts, "u1")) = 2
    /\ Cardinality(UserRowsOf("u1")) = 1
    /\ \E i \in UserRowsOf("u1") : users[i].username = <<"a", "l">>

\* ---- C4
\* The row a thought update must leave behind: a field of the request replaces
\* the stored one when the request supplies it.
ExpectedUpdate(t, text, section, folder) ==
    [id |-> t.id, user_id |-> t.user_id,
     text |-> IF text = NullStr THEN t.text ELSE text,
     section |-> IF section = NullStr THEN t.section ELSE section,
     folder |-> IF folder = Null THEN t.folder ELSE folder]

\* C4: a thought update answered 200 replaces exactly the fields its body
\* supplies, on the one row it names, and changes no other row; the answer
\* carries the updated row, and a list answers the owner's rows as stored.
C4_CoalesceUpdate ==
    [][ /\ (Answered /\ last'.req.route = "PUT thoughts" /\ last'.status = 200) =>
             \A id \in IdInputs, text \in TextInputs, section \in SectionInputs, folder \in IdInputs :
               PutThoughts(last'.req, id, text, section, folder) =>
                 \E t \in OwnedBy(thoughts, last'.req.user.uid) :
                   /\ t.id = id
                   /\ thoughts' = (thoughts \ {t}) \cup {ExpectedUpdate(t, text, section, folder)}
                   /\ last'.rows = {ExpectedUpdate(t, text, section, folder)}
        /\ (Answered /\ last'.req.route = "GET thoughts") =>
             last'.rows = {t \in thoughts : t.user_id = last'.req.user.uid}
      ]_vars

\* An update has just been answered with a row that kept its folder and text
\* and carries the other section, while a second thought is stored.
C4_Witness ==
    /\ last.req.route = "PUT thoughts" /\ last.status = 200
    /\ \E row \in last.rows : row.section = "idea" /\ row.text = "a" /\ row.folder = 1
    /\ Cardinality(thoughts) = 2

\* ---- C5
\* The thought t as a folder delete of `id` must leave it: detached from that
\* folder and otherwise as it was.
WithoutFolder(t, id) == IF t.folder = id THEN [t EXCEPT !.folder = Null] ELSE t

\* No thought references a folder id that has no folder row.
NoDanglingFolder == \A t \in thoughts : t.folder # Null => \E f \in folders : f.id = t.folder

\* C5: the detach statement of a folder delete clears the folder on the caller's
\* thoughts that reference it and changes nothing else; the folder-row delete
\* that is answered 200 removes that folder row, keeps every thought, leaves no
\* thought referencing the folder, whatever was assigned in between; and no
\* thought ever references a folder that is gone.
C5_FolderDeleteDetaches ==
    [][ /\ \A r \in Ready("DELETE folders", "handler") : \A id \in 1 .. MaxId :
             (Acted(r) /\ DeleteFoldersDetach(r, id)) =>
               /\ thoughts' = {IF t.user_id = r.user.uid THEN WithoutFolder(t, id) ELSE t
                                 : t \in thoughts}
               /\ folders' = folders
        /\ \A r \in Ready("DELETE folders", "deleteFolder") :
             (Acted(r) /\ last'.status = 200) =>
               /\ thoughts' = {WithoutFolder(t, r.id) : t \in thoughts}
               /\ \A t \in thoughts' : t.folder # r.id
               /\ folders' = {f \in folders : f.id # r.id}
               /\ \E f \in folders : f.id = r.id /\ f.user_id = r.user.uid
        /\ NoDanglingFolder'
      ]_vars

\* A folder delete whose detach statement cleared a thought has been answered
\* 200; the thought is still stored, in no folder.
C5_Witness ==
    /\ last.req.route = "DELETE folders" /\ last.status = 200
    /\ last.req.changed
    /\ \E t \in thoughts : t.user_id = last.req.user.uid /\ t.folder = Null
    /\ \A f \in folders : f.id # last.req.id

\* ---- C6
\* No owner holds two folders of one name.
UniquePerOwner ==
    \A f, g \in folders : (f.user_id = g.user_id /\ f.name = g.name) => f.id = g.id

\* C6: no owner ever holds two folders of one name; a folder create whose name
\* the owner already uses, and a rename to a name another of the owner's
\* folders uses, are answered 500 and leave the folders table as it was.
C6_FolderNameUniquePerOwner ==
    [][ /\ UniquePerOwner'
        /\ \A r \in Ready("POST folders", "handler") : \A name \in NameInputs \ {NullStr} :
             ( /\ Acted(r) /\ PostFolders(r, name)
               /\ \E f \in folders : f.user_id = r.user.uid /\ f.name = name )
             => (last'.status = 500 /\ folders' = folders)
        /\ \A r \in Ready("PUT folders", "handler") :
             \A id \in 1 .. MaxId, name \in NameInputs \ {NullStr} :
             ( /\ Acted(r) /\ PutFolders(r, id, name)
               /\ \E f, g \in folders : /\ f.user_id = r.user.uid /\ g.user_id = r.user.uid
                                          /\ f.id = id /\ g.id # id /\ g.name = name )
             => (last'.status = 500 /\ folders' = folders)
      ]_vars

\* A folder create was answered 201 with a name that another owner's folder has.
C6_Witness ==
    /\ last.req.route = "POST folders" /\ last.status = 201
    /\ \E f \in last.rows, g \in folders :
         f \in folders /\ g.name = f.name /\ g.user_id # f.user_id

\* ---- C7
\* C7: a thought in a folder references a folder row of the thought's owner.
C7_FolderOfSameOwner ==
    \A t \in thoughts : t.folder # Null =>
      \E f \in folders : f.id = t.folder /\ f.user_id = t.user_id

\* ---- C8
\* C8: a request answered 404 has changed nothing, in the answering step or
\* before it; and the detach statement of a folder delete that names a folder id
\* which does not exist, or is not the caller's, changes no thought.
C8_NotFoundNoEffect ==
    [][ /\ (Answered /\ last'.status = 404) => (db' = db /\ ~last'.req.changed)
        /\ \A r \in Ready("DELETE folders", "handler") : \A id \in 1 .. MaxId :
             ( /\ Acted(r) /\ DeleteFoldersDetach(r, id)
               /\ ~\E f \in folders : f.id = id /\ f.user_id = r.user.uid )
             => thoughts' = thoughts
      ]_vars

\* ---- C9
\* The bodies C9 is about: a text, a section, no folder.
PlainBody(text, section, folder) == text # NullStr /\ section # NullStr /\ folder = Null

\* C9: whatever the interleaving, an authenticated thought-create is answered
\* 201 unless its body lacks a text or a section or names a folder, and the 201
\* adds exactly one thought row, owned by the caller.
C9_CreateAlwaysSucceeds ==
    [][ \A r \in InFlight :
          (r.route = "POST thoughts" /\ r.pc # "gate" /\ Acted(r) /\ last'.status # 0) =>
            \/ /\ last'.status = 201
               /\ \E row \in last'.rows :
                    /\ row.user_id = r.user.uid
                    /\ row \notin thoughts
                    /\ thoughts' = thoughts \cup {row}
            \/ \E text \in TextInputs, section \in SectionInputs, folder \in IdInputs :
                 ~PlainBody(text, section, folder)
                 /\ PostThoughtsInsertThought(r, text, section, folder)
      ]_vars

\* ---- C10
\* Every folder row and every thought row has its owner's user row.
OwnersHaveUserRows == \A row \in folders \cup thoughts : HasUserRow(row.user_id)

\* C10 as amended: every folder and thought row is owned by an identity with a
\* user row; only the user insert of a thought-create changes the users table;
\* and a folder create with a name, by an identity that has no user row, is
\* answered 500 and adds neither a folder row nor a user row.
C10_NoUserRowNoFolder ==
    [][ /\ OwnersHaveUserRows'
        /\ users' # users => \E r \in Ready("POST thoughts", "insertUser") : Acted(r)
        /\ \A r \in Ready("POST folders", "handler") : \A name \in NameInputs \ {NullStr} :
             (Acted(r) /\ PostFolders(r, name) /\ ~HasUserRow(r.user.uid))
             => (last'.status = 500 /\ folders' = folders /\ users' = users)
      ]_vars

\* C10 as claimed: the same of an identity that has never created a thought.
C10_NeverCreatedNoFolder ==
    [][ \A r \in Ready("POST folders", "handler") : \A name \in NameInputs \ {NullStr} :
          (Acted(r) /\ PostFolders(r, name) /\ r.user.uid \notin creators)
          => (last'.status = 500 /\ folders' = folders /\ users' = users)
      ]_vars

\* A folder create by an identity without a user row was answered 500 while
\* another identity has rows; no folder was added.
C10_Witness ==
    /\ last.req.route = "POST folders" /\ last.status = 500
    /\ ~HasUserRow(last.req.user.uid)
    /\ thoughts # {}
    /\ folders = {}

====
